---- MODULE Spec2Model ----
(***************************************************************************)
(* A model of server.py of the M3U player: the party/chat store, the       *)
(* recording manager with its background recorder threads, the recordings  *)
(* catalog on disk, and the /stream relay with its ffmpeg subprocess.      *)
(*                                                                         *)
(* Python strings that the code inspects character by character (party     *)
(* codes, file names, channel names, chat text) are sequences of           *)
(* one-character strings, so that upper(), startswith(), endswith(),       *)
(* replace() and slicing are computed as the code computes them.           *)
(*                                                                         *)
(* main() serves with socketserver.TCPServer, which handles one request    *)
(* at a time on the listener thread: a request handler is one atomic       *)
(* action unless it blocks (the /stream relay), and only the recorder      *)
(* threads interleave with handlers.                                       *)
(***************************************************************************)
EXTENDS Integers, Sequences, FiniteSets, TLC

VARIABLES
    now,                \* time.time(), in whole seconds
    ticks,              \* how often the clock has advanced (bounds the model)
    PARTIES,            \* party code -> session record
    MESSAGES,           \* party code -> sequence of chat messages
    accepted,           \* history: party code -> every message accepted since create
    ACTIVE_RECORDINGS,  \* file name -> active-recording record
    RECORDED_FILES,     \* sequence of catalog entries, in dict insertion order
    disk,               \* the file system: resolved path -> file size
    platform,           \* "posix" or "nt": how the OS resolves ".." in a path
    tasks,              \* recorder threads: sequence of thread records
    stopSeen,           \* history: the threads that were running when a stop
                        \* request for their channel was answered
    reported,           \* history: thread -> the last positive duration a stop
                        \* request reported for its channel
    deleted,            \* history: the file names a delete request removed and
                        \* no recording has created since
    conns,              \* /stream and other connections seen by the listener
    cur,                \* the connection the listener thread is handling, or 0
    relay,              \* the running handle_stream_transcode call
    proc,               \* the ffmpeg subprocess of the running relay
    last                \* what the last step did: operation, argument, status

timeVars  == <<now, ticks>>
partyVars == <<PARTIES, MESSAGES, accepted>>
recVars   == <<ACTIVE_RECORDINGS, RECORDED_FILES, disk, platform, tasks, stopSeen, reported, deleted>>
relayVars == <<conns, cur, relay, proc>>
vars      == <<now, ticks, PARTIES, MESSAGES, accepted, ACTIVE_RECORDINGS,
               RECORDED_FILES, disk, platform, tasks, stopSeen, reported, deleted, conns,
               cur, relay, proc, last>>

----------------------------------------------------------------------------
(* Bounds of the model *)

MaxTicks == 2
MaxMembers == 2
MaxPartyMsgs == 1
MaxPosts == 103
StartTime == 100

(* Program constants *)

PartyTTL == 3600
MESSAGE_HISTORY_LIMIT == 100
UsernameLimit == 50
TextLimit == 500

----------------------------------------------------------------------------
(* Python's dict and str operations *)

EmptyMap == [x \in {} |-> x]

\* faulty variant: a key that is there keeps its value
Put_IfAbsent(f, k, v) == [x \in (DOMAIN f) \cup {k} |-> IF x \in DOMAIN f THEN f[x] ELSE v]

\* f[k] = v
Put(f, k, v) == [x \in (DOMAIN f) \cup {k} |-> IF x = k THEN v ELSE f[x]]

Del(f, k) == [x \in (DOMAIN f) \ {k} |-> f[x]]

Min(a, b) == IF a <= b THEN a ELSE b

Max(a, b) == IF a >= b THEN a ELSE b

\* s[:n]
Take(s, n) == SubSeq(s, 1, Min(Len(s), n))

\* s[-n:] for n > 0
LastN(s, n) == SubSeq(s, Max(1, Len(s) - n + 1), Len(s))

StartsWith(s, p) == Len(s) >= Len(p) /\ SubSeq(s, 1, Len(p)) = p

EndsWith(s, p) == Len(s) >= Len(p) /\ SubSeq(s, Len(s) - Len(p) + 1, Len(s)) = p

LowerLetters == <<"a","b","c","d","e","f","g","h","i","j","k","l","m",
                  "n","o","p","q","r","s","t","u","v","w","x","y","z">>

UpperLetters == <<"A","B","C","D","E","F","G","H","I","J","K","L","M",
                  "N","O","P","Q","R","S","T","U","V","W","X","Y","Z">>

UpperChar(ch) ==
    IF \E i \in 1..26 : LowerLetters[i] = ch
    THEN UpperLetters[CHOOSE i \in 1..26 : LowerLetters[i] = ch]
    ELSE ch

\* str.upper()
Upper(s) == [i \in 1..Len(s) |-> UpperChar(s[i])]

Whitespace == {" ", "\t", "\n", "\r"}

\* faulty variant: `if text:` in place of `if text.strip():`
IsBlank_EmptyOnly(s) == s = <<>>

\* not text.strip()
IsBlank(s) == \A i \in 1..Len(s) : s[i] \in Whitespace

DigitChars == <<"0","1","2","3","4","5","6","7","8","9">>

\* str(n) for an int n >= 0
RECURSIVE DigitsOf(_)
DigitsOf(n) ==
    IF n < 10 THEN <<DigitChars[n + 1]>>
    ELSE Append(DigitsOf(n \div 10), DigitChars[(n % 10) + 1])

----------------------------------------------------------------------------
(* The clock *)

\* What a step did. op, code: the operation and its argument (party code, file
\* name, channel); status: the HTTP status sent; evicted: get_party deleted the
\* session; ok: the "success" of the JSON body; fs: the handler called the file
\* system; acted: a file was unlinked or served (stop: a recording process was
\* stopped; create: the code drawn was held by a session); loc: where that file is; reply: what a play request with a Range
\* header was answered; listing: the recordings a list request returned.
NoReply == [ranged |-> FALSE, start |-> 0, end |-> 0, length |-> 0, sent |-> 0, size |-> 0]

FileDid(op, code, status, ok, fs, acted, loc) ==
    [op |-> op, code |-> code, status |-> status, evicted |-> FALSE,
     ok |-> ok, fs |-> fs, acted |-> acted, loc |-> loc, reply |-> NoReply,
     listing |-> <<>>]

Did(op, code, status, evicted) ==
    [op |-> op, code |-> code, status |-> status, evicted |-> evicted,
     ok |-> status = 200, fs |-> FALSE, acted |-> FALSE, loc |-> <<>>,
     reply |-> NoReply, listing |-> <<>>]

NoOp == Did("none", <<>>, 0, FALSE)

TickSteps == {PartyTTL, PartyTTL + 1}

Tick(d) ==
    /\ ticks < MaxTicks
    /\ now' = now + d
    /\ ticks' = ticks + 1
    /\ last' = Did("tick", <<>>, 0, FALSE)
    /\ UNCHANGED <<partyVars, recVars, relayVars>>

----------------------------------------------------------------------------
(* Session/party store: get_party and the /party handlers *)

\* get_party: the expiry test of line 54
IsExpired(code) ==
    /\ code \in DOMAIN PARTIES
    /\ now - PARTIES[code].timestamp > PartyTTL

\* get_party returns a party (not None)
PartyFound(code) == code \in DOMAIN PARTIES /\ ~IsExpired(code)

\* PARTIES and MESSAGES after get_party(code) has run (first a faulty variant that
\* answers None for an expired party without deleting it)
PartiesAfterGet_NoEvict(code) == PARTIES

PartiesAfterGet(code) == IF IsExpired(code) THEN Del(PARTIES, code) ELSE PARTIES

\* faulty variant: the chat log of an evicted party is kept
MessagesAfterGet_Keep(code) == MESSAGES

MessagesAfterGet(code) ==
    IF IsExpired(code) /\ code \in DOMAIN MESSAGES THEN Del(MESSAGES, code) ELSE MESSAGES

AcceptedAfterGet(code) ==
    IF IsExpired(code) /\ code \in DOMAIN accepted THEN Del(accepted, code) ELSE accepted

\* faulty variant: the access is not recorded
Touch_Never(party) == party

\* party['timestamp'] = time.time()
Touch(party) == [party EXCEPT !.timestamp = now]

ServerIdle == cur = 0

\* faulty variant: the guests are not numbered
MemberId_Same(n) == <<"m","e","m","b","e","r","_">> \o DigitsOf(n - n + 1)

\* member_id = f"member_{len(party['members'])}"
MemberId(n) == <<"m","e","m","b","e","r","_">> \o DigitsOf(n)

HostId == <<"h","o","s","t">>

\* handle_party_create, with the code generate_party_code drew
PartyCreate(username, code) ==
    /\ ServerIdle
    /\ PARTIES' = Put(PARTIES, code,
                      [host |-> Take(username, UsernameLimit),
                       members |-> << [username |-> Take(username, UsernameLimit),
                                       id |-> HostId, timestamp |-> now] >>,
                       channel |-> <<>>,
                       playing |-> FALSE,
                       currentTime |-> 0,
                       timestamp |-> now])
    /\ MESSAGES' = Put(MESSAGES, code, <<>>)
    /\ accepted' = Put(accepted, code, <<>>)
    /\ last' = [Did("create", code, 200, FALSE) EXCEPT !.acted = code \in DOMAIN PARTIES]
    /\ UNCHANGED <<timeVars, recVars, relayVars>>

\* handle_party_join
PartyJoin(rawcode, username) ==
    LET code == Upper(rawcode) IN
    /\ ServerIdle
    /\ IF PartyFound(code)
       THEN LET party == PARTIES[code]
                member == [username |-> Take(username, UsernameLimit),
                           id |-> MemberId(Len(party.members)),
                           timestamp |-> now]
            IN  /\ PARTIES' = [PARTIES EXCEPT ![code] =
                                  Touch([party EXCEPT !.members = Append(@, member)])]
                /\ UNCHANGED <<MESSAGES, accepted>>
                /\ last' = Did("join", code, 200, FALSE)
       ELSE /\ PARTIES' = PartiesAfterGet(code)
            /\ MESSAGES' = MessagesAfterGet(code)
            /\ accepted' = AcceptedAfterGet(code)
            /\ last' = Did("join", code, 404, IsExpired(code))
    /\ UNCHANGED <<timeVars, recVars, relayVars>>

\* handle_party_state
PartyStateBody(rawcode) ==
    LET code == Upper(rawcode) IN
    IF PartyFound(code)
    THEN /\ PARTIES' = [PARTIES EXCEPT ![code] = Touch(@)]
         /\ UNCHANGED <<MESSAGES, accepted>>
         /\ last' = Did("state", code, 200, FALSE)
    ELSE /\ PARTIES' = PartiesAfterGet(code)
         /\ MESSAGES' = MessagesAfterGet(code)
         /\ accepted' = AcceptedAfterGet(code)
         /\ last' = Did("state", code, 404, IsExpired(code))

PartyState(rawcode) ==
    /\ ServerIdle
    /\ PartyStateBody(rawcode)
    /\ UNCHANGED <<timeVars, recVars, relayVars>>

\* handle_party_messages (the since filter only shapes the response body)
PartyMessages(rawcode) ==
    LET code == Upper(rawcode) IN
    /\ ServerIdle
    /\ IF PartyFound(code)
       THEN /\ PARTIES' = [PARTIES EXCEPT ![code] = Touch(@)]
            /\ UNCHANGED <<MESSAGES, accepted>>
            /\ last' = Did("messages", code, 200, FALSE)
       ELSE /\ PARTIES' = PartiesAfterGet(code)
            /\ MESSAGES' = MessagesAfterGet(code)
            /\ accepted' = AcceptedAfterGet(code)
            /\ last' = Did("messages", code, 404, IsExpired(code))
    /\ UNCHANGED <<timeVars, recVars, relayVars>>

\* handle_party_leave: no get_party, the timestamp is refreshed as it is
PartyLeave(rawcode) ==
    LET code == Upper(rawcode) IN
    /\ ServerIdle
    /\ PARTIES' = IF code \in DOMAIN PARTIES
                  THEN [PARTIES EXCEPT ![code] = Touch(@)]
                  ELSE PARTIES
    /\ last' = Did("leave", code, 200, FALSE)
    /\ UNCHANGED <<MESSAGES, accepted, timeVars, recVars, relayVars>>

\* The fields a /party/update body may carry
PatchFields == {"channel", "playing", "currentTime"}

\* faulty variant: the body replaces the three fields, absent ones by the
\* values a new party has
ApplyPatch_Replace(party, patch) ==
    [party EXCEPT
        !.channel = IF "channel" \in DOMAIN patch THEN patch.channel ELSE <<>>,
        !.playing = IF "playing" \in DOMAIN patch THEN patch.playing ELSE FALSE,
        !.currentTime = IF "currentTime" \in DOMAIN patch THEN patch.currentTime ELSE 0]

ApplyPatch(party, patch) ==
    [party EXCEPT
        !.channel = IF "channel" \in DOMAIN patch THEN patch.channel ELSE @,
        !.playing = IF "playing" \in DOMAIN patch THEN patch.playing ELSE @,
        !.currentTime = IF "currentTime" \in DOMAIN patch THEN patch.currentTime ELSE @]

\* handle_party_update
PartyUpdate(rawcode, patch) ==
    LET code == Upper(rawcode) IN
    /\ ServerIdle
    /\ IF PartyFound(code)
       THEN /\ PARTIES' = [PARTIES EXCEPT ![code] = Touch(ApplyPatch(@, patch))]
            /\ UNCHANGED <<MESSAGES, accepted>>
            /\ last' = Did("update", code, 200, FALSE)
       ELSE /\ PARTIES' = PartiesAfterGet(code)
            /\ MESSAGES' = MessagesAfterGet(code)
            /\ accepted' = AcceptedAfterGet(code)
            /\ last' = Did("update", code, 404, IsExpired(code))
    /\ UNCHANGED <<timeVars, recVars, relayVars>>

\* Keep only last N messages (lines 341-342), a faulty variant first
TrimHistory_KeepOldest(msgs) ==
    IF Len(msgs) > MESSAGE_HISTORY_LIMIT THEN Take(msgs, MESSAGE_HISTORY_LIMIT) ELSE msgs

TrimHistory(msgs) ==
    IF Len(msgs) > MESSAGE_HISTORY_LIMIT THEN LastN(msgs, MESSAGE_HISTORY_LIMIT) ELSE msgs

\* handle_send_message
SendMessage(rawcode, username, rawtext) ==
    LET code == Upper(rawcode)
        text == Take(rawtext, TextLimit)
        message == [username |-> Take(username, UsernameLimit),
                    text |-> text, timestamp |-> now]
        log == IF code \in DOMAIN MESSAGES THEN MESSAGES[code] ELSE <<>>
        hist == IF code \in DOMAIN accepted THEN accepted[code] ELSE <<>>
    IN
    /\ ServerIdle
    /\ IF PartyFound(code)
       THEN IF ~IsBlank(text)
            THEN /\ MESSAGES' = Put(MESSAGES, code, TrimHistory(Append(log, message)))
                 /\ accepted' = Put(accepted, code, Append(hist, message))
                 /\ PARTIES' = [PARTIES EXCEPT ![code] = Touch(@)]
                 /\ last' = Did("send", code, 200, FALSE)
            ELSE /\ UNCHANGED <<PARTIES, MESSAGES, accepted>>
                 /\ last' = Did("send", code, 400, FALSE)
       ELSE /\ PARTIES' = PartiesAfterGet(code)
            /\ MESSAGES' = MessagesAfterGet(code)
            /\ accepted' = AcceptedAfterGet(code)
            /\ last' = Did("send", code, 404, IsExpired(code))
    /\ UNCHANGED <<timeVars, recVars, relayVars>>

----------------------------------------------------------------------------
(* Paths: RECORDINGS_DIR / filename, and how the operating system finds it *)

RecDirName == <<"r","e","c","o","r","d","i","n","g","s">>
RecPrefix == <<"r","e","c","_">>
TsSuffix == <<".","t","s">>
Dot == <<".">>
DotDot == <<".",".">>

\* the separators pathlib splits a path at
Seps == IF platform = "nt" THEN {"/", "\\"} ELSE {"/"}

\* str.split at any of seps
RECURSIVE Split(_, _)
Split(s, seps) ==
    IF \E i \in 1..Len(s) : s[i] \in seps
    THEN LET i == CHOOSE k \in 1..Len(s) :
                      s[k] \in seps /\ \A j \in 1..(k - 1) : s[j] \notin seps
         IN  <<SubSeq(s, 1, i - 1)>> \o Split(SubSeq(s, i + 1, Len(s)), seps)
    ELSE <<s>>

\* A location is the sequence of names from the server's working directory
\* (main: os.chdir to the script's directory); ".." names lead above it.
\* The directories that exist: the working directory, recordings/ (line 38:
\* mkdir) and the working directory's ancestors. The code creates no other.
IsDir(loc) ==
    \/ loc = <<>>
    \/ loc = <<RecDirName>>
    \/ \A i \in 1..Len(loc) : loc[i] = DotDot

NoEnt == << <<>> >>

Parent(loc) ==
    IF loc = <<>> \/ loc[Len(loc)] = DotDot
    THEN Append(loc, DotDot)
    ELSE SubSeq(loc, 1, Len(loc) - 1)

\* Path resolution. POSIX walks the path and needs every directory on the
\* way to exist; Windows collapses "name\.." before it looks anything up.
RECURSIVE Walk(_, _, _)
Walk(loc, comps, walked) ==
    IF comps = <<>> \/ loc = NoEnt THEN loc
    ELSE LET h == Head(comps)
             t == Tail(comps)
         IN  IF h = <<>> \/ h = Dot THEN Walk(loc, t, walked)
             ELSE IF h = DotDot THEN Walk(Parent(loc), t, walked)
             ELSE IF t # <<>> /\ walked /\ ~IsDir(Append(loc, h)) THEN NoEnt
             ELSE Walk(Append(loc, h), t, walked)

\* filepath = RECORDINGS_DIR / filename, as the OS resolves it (a filename
\* the handlers let through starts with rec_, so it is never absolute)
RecordingPath(filename) ==
    Walk(<<>>, <<RecDirName>> \o Split(filename, Seps), platform = "posix")

\* filepath.exists()
Exists(loc) == loc \in DOMAIN disk

----------------------------------------------------------------------------
(* The recorder: handle_recording_start and its record_stream thread *)

MAX_DURATION == 36000
ChannelLimit == 30

\* channel.replace('/', '_').replace('\\', '_')[:30]
SafeChannel(channel) ==
    Take([i \in 1..Len(channel) |->
            IF channel[i] \in {"/", "\\"} THEN "_" ELSE channel[i]], ChannelLimit)

\* f"rec_{timestamp}_{safe_channel}.ts"
FileName(timestamp, channel) ==
    RecPrefix \o DigitsOf(timestamp) \o <<"_">> \o SafeChannel(channel) \o TsSuffix

\* The catalog is a dict: RECORDED_FILES keeps its entries in insertion order
CatalogHas(filename) == \E i \in 1..Len(RECORDED_FILES) : RECORDED_FILES[i].filename = filename

CatalogIndex(filename) == CHOOSE i \in 1..Len(RECORDED_FILES) : RECORDED_FILES[i].filename = filename

\* RECORDED_FILES[filename] = entry
CatalogPut(entry) ==
    IF CatalogHas(entry.filename)
    THEN [RECORDED_FILES EXCEPT ![CatalogIndex(entry.filename)] = entry]
    ELSE Append(RECORDED_FILES, entry)

\* RECORDED_FILES.pop(filename, None)
CatalogPop(filename) ==
    IF CatalogHas(filename)
    THEN LET i == CatalogIndex(filename)
         IN  SubSeq(RECORDED_FILES, 1, i - 1) \o SubSeq(RECORDED_FILES, i + 1, Len(RECORDED_FILES))
    ELSE RECORDED_FILES

NewTask(filename, channel, url) ==
    [pc |-> "begin", filename |-> filename, channel |-> channel, url |-> url,
     actual_start_time |-> 0, start_time |-> 0, last_data_time |-> 0,
     bytes_written |-> 0, ino |-> 0, size |-> 0, duration |-> 0]

Running(t) == tasks[t].pc # "done"

\* handle_recording_start: nothing is put into ACTIVE_RECORDINGS; the thread
\* started at line 801 is the task appended here
RecordingStart(channel, url) ==
    /\ ServerIdle
    /\ IF url = <<>>
       THEN /\ last' = FileDid("start", <<>>, 400, FALSE, FALSE, FALSE, <<>>)
            /\ UNCHANGED tasks
       ELSE LET filename == FileName(now, channel)
            IN  /\ tasks' = Append(tasks, NewTask(filename, channel, url))
                /\ last' = FileDid("start", filename, 200, TRUE, FALSE, FALSE, <<>>)
    /\ UNCHANGED <<ACTIVE_RECORDINGS, RECORDED_FILES, disk, platform, stopSeen, reported, deleted>>
    /\ UNCHANGED <<timeVars, partyVars, relayVars>>

TaskLog(t) == FileDid("task", <<>>, 0, FALSE, FALSE, FALSE, <<>>)

\* record_stream, line 720
TaskBegin(t) ==
    /\ tasks[t].pc = "begin"
    /\ tasks' = [tasks EXCEPT ![t].actual_start_time = now, ![t].pc = "connect"]
    /\ last' = TaskLog(t)
    /\ UNCHANGED <<ACTIVE_RECORDINGS, RECORDED_FILES, disk, platform, stopSeen, reported, deleted>>
    /\ UNCHANGED <<timeVars, partyVars, relayVars>>

\* lines 730-744: requests.get answers, and open(filepath, 'wb') creates the
\* file or truncates the one that is there (keeping its inode). An inode is
\* named by the thread that created it, 0 for a file of an earlier run.
TaskConnect(t) ==
    LET loc == RecordingPath(tasks[t].filename)
        ino == IF Exists(loc) THEN disk[loc].ino ELSE t
    IN
    /\ tasks[t].pc = "connect"
    /\ disk' = Put(disk, loc, [size |-> 0, ino |-> ino])
    /\ tasks' = [tasks EXCEPT ![t].start_time = now, ![t].last_data_time = now,
                              ![t].bytes_written = 0, ![t].ino = ino, ![t].pc = "loop"]
    /\ deleted' = deleted \ {tasks[t].filename}
    /\ last' = TaskLog(t)
    /\ UNCHANGED <<ACTIVE_RECORDINGS, RECORDED_FILES, platform, stopSeen, reported>>
    /\ UNCHANGED <<timeVars, partyVars, relayVars>>

\* lines 730-731 and 764-767: requests.get times out or fails, or
\* raise_for_status raises: no file is opened
TaskConnectFails(t) ==
    /\ tasks[t].pc = "connect"
    /\ tasks' = [tasks EXCEPT ![t].pc = "exists"]
    /\ last' = TaskLog(t)
    /\ UNCHANGED <<ACTIVE_RECORDINGS, RECORDED_FILES, disk, platform, stopSeen, reported, deleted>>
    /\ UNCHANGED <<timeVars, partyVars, relayVars>>

\* lines 745-760: a chunk arrives and is written at the thread's own offset
\* of the inode it opened (an unlinked inode is no longer on disk); then the
\* duration limit is checked
TaskChunk(t) ==
    LET loc == RecordingPath(tasks[t].filename)
        end == tasks[t].bytes_written + 1
    IN
    /\ tasks[t].pc = "loop"
    /\ disk' = IF Exists(loc) /\ disk[loc].ino = tasks[t].ino
               THEN [disk EXCEPT ![loc].size = Max(@, end)]
               ELSE disk
    /\ tasks' = [tasks EXCEPT ![t].bytes_written = end, ![t].last_data_time = now,
                              ![t].pc = IF now - tasks[t].start_time >= MAX_DURATION
                                        THEN "exists" ELSE "loop"]
    /\ last' = TaskLog(t)
    /\ UNCHANGED <<ACTIVE_RECORDINGS, RECORDED_FILES, platform, stopSeen, reported, deleted>>
    /\ UNCHANGED <<timeVars, partyVars, relayVars>>

NO_DATA_TIMEOUT == 2

\* lines 750-760 for a chunk that is empty: nothing is written, the idle window
\* is tested, then the duration limit. The test runs only when iter_content
\* hands the loop body a chunk; while the source is silent the thread waits
\* inside iter_content.
TaskEmptyChunk(t) ==
    /\ tasks[t].pc = "loop"
    /\ tasks' = [tasks EXCEPT ![t].pc =
                    IF now - tasks[t].last_data_time > NO_DATA_TIMEOUT THEN "exists"
                    ELSE IF now - tasks[t].start_time >= MAX_DURATION THEN "exists"
                    ELSE "loop"]
    /\ last' = TaskLog(t)
    /\ UNCHANGED <<ACTIVE_RECORDINGS, RECORDED_FILES, disk, platform, stopSeen, reported, deleted>>
    /\ UNCHANGED <<timeVars, partyVars, relayVars>>

\* the upstream ends, or iter_content raises a RequestException (lines 766-767)
TaskStreamEnds(t) ==
    /\ tasks[t].pc = "loop"
    /\ tasks' = [tasks EXCEPT ![t].pc = "exists"]
    /\ last' = TaskLog(t)
    /\ UNCHANGED <<ACTIVE_RECORDINGS, RECORDED_FILES, disk, platform, stopSeen, reported, deleted>>
    /\ UNCHANGED <<timeVars, partyVars, relayVars>>

\* f.write raises OSError (the disk is full, the device fails): not a
\* RequestException, so the handler of line 791 takes it and the thread skips
\* lines 770-786
TaskWriteFails(t) ==
    /\ tasks[t].pc = "loop"
    /\ tasks' = [tasks EXCEPT ![t].pc = "cleanup"]
    /\ last' = TaskLog(t)
    /\ UNCHANGED <<ACTIVE_RECORDINGS, RECORDED_FILES, disk, platform, stopSeen, reported, deleted>>
    /\ UNCHANGED <<timeVars, partyVars, relayVars>>

\* line 771: if filepath.exists()
TaskExists(t) ==
    /\ tasks[t].pc = "exists"
    /\ tasks' = [tasks EXCEPT ![t].pc =
                    IF Exists(RecordingPath(tasks[t].filename)) THEN "publish" ELSE "cleanup"]
    /\ last' = TaskLog(t)
    /\ UNCHANGED <<ACTIVE_RECORDINGS, RECORDED_FILES, disk, platform, stopSeen, reported, deleted>>
    /\ UNCHANGED <<timeVars, partyVars, relayVars>>

\* lines 772-776: size = filepath.stat().st_size (FileNotFoundError goes to
\* the handler of line 791) and duration = max(1, actual_end_time - actual_start_time)
TaskStat(t) ==
    LET loc == RecordingPath(tasks[t].filename) IN
    /\ tasks[t].pc = "publish"
    /\ tasks' = IF Exists(loc)
                THEN [tasks EXCEPT ![t].size = disk[loc].size,
                                   ![t].duration = Max(1, now - tasks[t].actual_start_time),
                                   ![t].pc = "put"]
                ELSE [tasks EXCEPT ![t].pc = "cleanup"]
    /\ last' = TaskLog(t)
    /\ UNCHANGED <<ACTIVE_RECORDINGS, RECORDED_FILES, disk, platform, stopSeen, reported, deleted>>
    /\ UNCHANGED <<timeVars, partyVars, relayVars>>

\* lines 777-782: RECORDED_FILES[filename] = {...}, a statement of its own: the
\* listener thread can run a handler between the stat and this store
TaskPublish(t) ==
    /\ tasks[t].pc = "put"
    /\ RECORDED_FILES' = CatalogPut([filename |-> tasks[t].filename,
                                     channel |-> tasks[t].channel,
                                     size |-> tasks[t].size,
                                     duration |-> tasks[t].duration,
                                     timestamp |-> tasks[t].actual_start_time])
    /\ tasks' = [tasks EXCEPT ![t].pc = "cleanup"]
    /\ last' = TaskLog(t)
    /\ UNCHANGED <<ACTIVE_RECORDINGS, disk, platform, stopSeen, reported, deleted>>
    /\ UNCHANGED <<timeVars, partyVars, relayVars>>

\* lines 789-790 and 795-798: if filename in ACTIVE_RECORDINGS: del
TaskCleanup(t) ==
    /\ tasks[t].pc = "cleanup"
    /\ ACTIVE_RECORDINGS' = IF tasks[t].filename \in DOMAIN ACTIVE_RECORDINGS
                            THEN Del(ACTIVE_RECORDINGS, tasks[t].filename)
                            ELSE ACTIVE_RECORDINGS
    /\ tasks' = [tasks EXCEPT ![t].pc = "done"]
    /\ last' = TaskLog(t)
    /\ UNCHANGED <<RECORDED_FILES, disk, platform, stopSeen, reported, deleted>>
    /\ UNCHANGED <<timeVars, partyVars, relayVars>>

\* faulty variant: the newest entry of the channel
FirstOfChannel_Newest(channel) ==
    CHOOSE i \in 1..Len(RECORDED_FILES) :
        /\ RECORDED_FILES[i].channel = channel
        /\ \A j \in (i + 1)..Len(RECORDED_FILES) : RECORDED_FILES[j].channel # channel

\* lines 833-838: the first catalog entry of the channel gets the client's duration
FirstOfChannel(channel) ==
    CHOOSE i \in 1..Len(RECORDED_FILES) :
        /\ RECORDED_FILES[i].channel = channel
        /\ \A j \in 1..(i - 1) : RECORDED_FILES[j].channel # channel

\* lines 870-874, faulty variant: not found unless a recording was stopped
StopStatus_NeedsMatch(stopped) == IF stopped THEN 200 ELSE 404

\* lines 870-874: `if not stopped` only prints; the reply is success either way
StopStatus(stopped) == 200

\* handle_recording_stop. The loop of lines 842-868 runs over
\* ACTIVE_RECORDINGS and acts on the 'process' of a matching entry only: it
\* reads and writes nothing of a recorder thread.
RecordingStop(channel, client_duration) ==
    LET matched == \E i \in 1..Len(RECORDED_FILES) : RECORDED_FILES[i].channel = channel
        stopped == \E f \in DOMAIN ACTIVE_RECORDINGS : ACTIVE_RECORDINGS[f].channel = channel
    IN
    /\ ServerIdle
    /\ RECORDED_FILES' =
          IF matched /\ client_duration > 0
          THEN [RECORDED_FILES EXCEPT ![FirstOfChannel(channel)].duration = client_duration]
          ELSE RECORDED_FILES
    /\ stopSeen' = stopSeen \cup {t \in 1..Len(tasks) : Running(t) /\ tasks[t].channel = channel}
    /\ reported' =
          LET told == IF client_duration > 0
                      THEN {t \in 1..Len(tasks) : tasks[t].channel = channel}
                      ELSE {}
          IN  [t \in DOMAIN reported \cup told |->
                  IF t \in told THEN client_duration ELSE reported[t]]
    /\ UNCHANGED deleted
    /\ last' = FileDid("stop", channel, StopStatus(stopped), StopStatus(stopped) = 200,
                       FALSE, stopped, <<>>)
    /\ UNCHANGED <<ACTIVE_RECORDINGS, disk, platform, tasks>>
    /\ UNCHANGED <<timeVars, partyVars, relayVars>>

----------------------------------------------------------------------------
(* The catalog on disk: handle_recording_delete and handle_recording_play *)

\* lines 965 and 998: the only test a file name has to pass; first a
\* faulty variant that forgets the suffix
FilenameAllowed_PrefixOnly(filename) == StartsWith(filename, RecPrefix)

FilenameAllowed(filename) == StartsWith(filename, RecPrefix) /\ EndsWith(filename, TsSuffix)

\* a recorder thread holds the file open: Windows refuses to unlink it
HeldOpen(loc) ==
    \E t \in 1..Len(tasks) : tasks[t].pc = "loop" /\ RecordingPath(tasks[t].filename) = loc

\* handle_recording_delete
RecordingDelete(filename) ==
    LET loc == RecordingPath(filename) IN
    /\ ServerIdle
    /\ IF ~FilenameAllowed(filename)
       THEN /\ last' = FileDid("delete", filename, 400, FALSE, FALSE, FALSE, <<>>)
            /\ UNCHANGED <<disk, RECORDED_FILES>>
       ELSE IF ~Exists(loc)
       THEN /\ last' = FileDid("delete", filename, 200, FALSE, TRUE, FALSE, <<>>)
            /\ UNCHANGED <<disk, RECORDED_FILES>>
       ELSE IF platform = "nt" /\ HeldOpen(loc)
       THEN /\ last' = FileDid("delete", filename, 200, FALSE, TRUE, FALSE, <<>>)
            /\ UNCHANGED <<disk, RECORDED_FILES>>
       ELSE /\ disk' = Del(disk, loc)
            /\ RECORDED_FILES' = CatalogPop(filename)
            /\ last' = FileDid("delete", filename, 200, TRUE, TRUE, TRUE, loc)
    /\ deleted' = IF last'.ok THEN deleted \cup {filename} ELSE deleted
    /\ UNCHANGED <<ACTIVE_RECORDINGS, platform, tasks, stopSeen, reported>>
    /\ UNCHANGED <<timeVars, partyVars, relayVars>>

\* handle_recording_play without a Range header; a request without the file
\* parameter has filename <<>>
RecordingPlay(filename) ==
    LET loc == RecordingPath(filename) IN
    /\ ServerIdle
    /\ last' = IF filename = <<>> \/ ~FilenameAllowed(filename)
               THEN FileDid("play", filename, 400, FALSE, FALSE, FALSE, <<>>)
               ELSE IF ~Exists(loc)
               THEN FileDid("play", filename, 404, FALSE, TRUE, FALSE, <<>>)
               ELSE FileDid("play", filename, 200, TRUE, TRUE, TRUE, loc)
    /\ UNCHANGED <<recVars, timeVars, partyVars, relayVars>>

\* The Range header of a play request, lines 1013-1043

BytesEq == <<"b","y","t","e","s","=">>

\* faulty variant: the unit prefix is left in the header
Remove_Nothing(str, pat) == str

\* str.replace(pat, '')
RECURSIVE Remove(_, _)
Remove(str, pat) ==
    IF Len(str) < Len(pat) \/ Len(str) = 0 THEN str
    ELSE IF StartsWith(str, pat) THEN Remove(SubSeq(str, Len(pat) + 1, Len(str)), pat)
    ELSE <<Head(str)>> \o Remove(Tail(str), pat)

\* int(str) of a string of digits; int() of anything else a Range header of
\* the model holds (the empty string, letters, a comma) raises ValueError
IsInt(str) ==
    /\ Len(str) > 0
    /\ \A i \in 1..Len(str) : \E d \in 1..10 : DigitChars[d] = str[i]

RECURSIVE IntOf(_)
IntOf(str) ==
    IF Len(str) = 0 THEN 0
    ELSE IntOf(SubSeq(str, 1, Len(str) - 1)) * 10
         + (CHOOSE d \in 1..10 : DigitChars[d] = str[Len(str)]) - 1

\* what the client is sent for range_header on a file of file_size bytes:
\* status, Content-Range start and end, Content-Length, and the number of body
\* bytes f.seek(start); f.read(content_length) hands to wfile.write. Any
\* exception while parsing falls back to the whole file with 200.
PlayRange(range_header, file_size) ==
    LET range_value == Remove(range_header, BytesEq)
        dash  == \E i \in 1..Len(range_value) : range_value[i] = "-"
        parts == Split(range_value, {"-"})
        parses == IF dash
                  THEN /\ Len(parts) = 2
                       /\ parts[1] = <<>> \/ IsInt(parts[1])
                       /\ parts[2] = <<>> \/ IsInt(parts[2])
                  ELSE IsInt(range_value)
        start == IF dash
                 THEN (IF parts[1] = <<>> THEN 0 ELSE IntOf(parts[1]))
                 ELSE IntOf(range_value)
        end   == IF dash
                 THEN (IF parts[2] = <<>> THEN file_size - 1 ELSE IntOf(parts[2]))
                 ELSE file_size - 1
        content_length == end - start + 1
        rest  == Max(0, file_size - start)
    IN  IF parses
        THEN [ranged |-> TRUE, status |-> 206, start |-> start, end |-> end,
              length |-> content_length,
              sent |-> IF content_length < 0 THEN rest ELSE Min(content_length, rest),
              size |-> file_size]
        ELSE [ranged |-> TRUE, status |-> 200, start |-> 0, end |-> file_size - 1,
              length |-> file_size, sent |-> file_size, size |-> file_size]

\* handle_recording_play with a Range header
RecordingPlayRange(filename, range_header) ==
    LET loc == RecordingPath(filename) IN
    /\ ServerIdle
    /\ range_header # <<>>
    /\ last' = IF filename = <<>> \/ ~FilenameAllowed(filename)
               THEN FileDid("play", filename, 400, FALSE, FALSE, FALSE, <<>>)
               ELSE IF ~Exists(loc)
               THEN FileDid("play", filename, 404, FALSE, TRUE, FALSE, <<>>)
               ELSE LET reply == PlayRange(range_header, disk[loc].size)
                    IN  [FileDid("play", filename, reply.status, TRUE, TRUE, TRUE, loc)
                            EXCEPT !.reply = [r \in DOMAIN reply \ {"status"} |-> reply[r]]]
    /\ UNCHANGED <<recVars, timeVars, partyVars, relayVars>>

\* handle_recording_list: the names glob('rec_*.ts') finds in the recordings
\* directory; the catalog only supplies their details
Listed ==
    { loc[2] : loc \in { l \in DOMAIN disk :
                            /\ Len(l) = 2
                            /\ l[1] = RecDirName
                            /\ StartsWith(l[2], RecPrefix)
                            /\ EndsWith(l[2], TsSuffix) } }

Unknown == <<"U","n","k","n","o","w","n">>

\* lines 897-923: what list makes of a file that is not in the catalog. The
\* name without '.ts' is split at '_'; the channel is what follows the second
\* '_', the timestamp is int() of the second part, or the file's mtime if
\* that is not a number.
FileInfo(filename, mtime) ==
    LET stem  == Remove(filename, TsSuffix)
        parts == Split(stem, {"_"})
        timestamp == IF Len(parts) > 1 /\ IsInt(parts[2]) THEN IntOf(parts[2]) ELSE mtime
    IN  [filename |-> filename,
         channel |-> IF Len(parts) > 2
                     THEN SubSeq(stem, Len(parts[1]) + Len(parts[2]) + 3, Len(stem))
                     ELSE Unknown,
         size |-> disk[RecordingPath(filename)].size,
         duration |-> Max(0, now - timestamp),
         timestamp |-> timestamp]

\* lines 904-935: the entry of the catalog if there is one
ListEntry(filename, mtime) ==
    IF CatalogHas(filename) THEN RECORDED_FILES[CatalogIndex(filename)]
    ELSE FileInfo(filename, mtime)

\* list.sort(key=timestamp, reverse=True), faulty variant: reverse left out
RECURSIVE SortByTimestamp_Ascending(_)
SortByTimestamp_Ascending(recordings) ==
    IF recordings = <<>> THEN <<>>
    ELSE LET sorted == SortByTimestamp_Ascending(SubSeq(recordings, 1, Len(recordings) - 1))
             e == recordings[Len(recordings)]
             k == Cardinality({i \in 1..Len(sorted) : sorted[i].timestamp <= e.timestamp})
         IN  SubSeq(sorted, 1, k) \o <<e>> \o SubSeq(sorted, k + 1, Len(sorted))

\* list.sort(key=timestamp, reverse=True): a stable sort, so entries of equal
\* timestamp stay in the order glob gave them
RECURSIVE SortByTimestamp(_)
SortByTimestamp(recordings) ==
    IF recordings = <<>> THEN <<>>
    ELSE LET sorted == SortByTimestamp(SubSeq(recordings, 1, Len(recordings) - 1))
             e == recordings[Len(recordings)]
             k == Cardinality({i \in 1..Len(sorted) : sorted[i].timestamp >= e.timestamp})
         IN  SubSeq(sorted, 1, k) \o <<e>> \o SubSeq(sorted, k + 1, Len(sorted))

\* the orders in which glob may hand out the files
GlobOrders ==
    { order \in [1..Cardinality(Listed) -> Listed] :
        \A i, j \in 1..Cardinality(Listed) : i # j => order[i] # order[j] }

\* handle_recording_list, with the order glob gave and the mtime of each file
RecordingList(order, mtimes) ==
    /\ ServerIdle
    /\ order \in GlobOrders
    /\ last' = [FileDid("list", <<>>, 200, TRUE, TRUE, FALSE, <<>>) EXCEPT
                  !.listing = SortByTimestamp([i \in 1..Len(order) |->
                                                 ListEntry(order[i], mtimes[order[i]])])]
    /\ UNCHANGED <<recVars, timeVars, partyVars, relayVars>>

----------------------------------------------------------------------------
(* The listener and the /stream relay.  main() serves with
   socketserver.TCPServer: serve_forever accepts one connection, runs its
   handler to completion on the same thread and only then accepts the next.
   conns is the sequence of connections clients have opened, cur the one whose
   handler is running (0: none), relay the locals of a running
   handle_stream_transcode, proc the ffmpeg processes spawned so far. *)

NewConn(kind, url) ==
    [kind |-> kind, url |-> url, open |-> TRUE, state |-> "pending",
     status |-> 0, write_failed |-> "none",
     replies |-> <<>>, tool |-> "unchecked", upstream_failed |-> FALSE]

\* What subprocess.run(probe_cmd) gave: how it ended (it exited, timed out
\* after 15 s, or raised), its exit code, whether stdout parses as JSON, and
\* the codec_name of each entry of "streams" (NoName: the entry has none)
NoName == <<>>
NoProbe == [how |-> "none", returncode |-> 0, parsed |-> FALSE, streams |-> <<>>]

LowerChar(ch) ==
    IF \E i \in 1..Len(UpperLetters) : UpperLetters[i] = ch
    THEN LowerLetters[CHOOSE i \in 1..Len(UpperLetters) : UpperLetters[i] = ch]
    ELSE ch

Lower(str) == [i \in 1..Len(str) |-> LowerChar(str[i])]

IdleRelay ==
    [pc |-> "idle", ffmpeg_available |-> FALSE, ffprobe_available |-> FALSE,
     needs_video_transcode |-> FALSE, process |-> 0,
     bytes_sent_bound |-> FALSE, bytes_sent |-> 0, probe |-> NoProbe]

RelayLog == Did("relay", <<>>, 0, FALSE)

\* a client opens a connection and sends its request
Connect(kind, url) ==
    /\ conns' = Append(conns, NewConn(kind, url))
    /\ last' = RelayLog
    /\ UNCHANGED <<timeVars, partyVars, recVars, cur, relay, proc>>

\* the client closes its end, before or while its request is served
ClientClose(r) ==
    /\ conns[r].open
    /\ conns[r].state \in {"pending", "serving"}
    /\ conns' = [conns EXCEPT ![r].open = FALSE]
    /\ last' = RelayLog
    /\ UNCHANGED <<timeVars, partyVars, recVars, cur, relay, proc>>

\* wfile is unbuffered: a write to a connection the client has closed raises
\* EPIPE or ECONNRESET, whichever the kernel reports
WriteErrors == {"BrokenPipeError", "ConnectionResetError"}
WriteOutcomes(c) == IF c.open THEN {"ok"} ELSE WriteErrors

\* a status line and header block has been written to a client that is there:
\* replies is the history of the status lines the client has been sent
Sent(c, status) == [c EXCEPT !.status = status, !.replies = Append(@, status)]

\* the handler is over: it returned, or an exception left it
EndedRec(c, how, status) == [c EXCEPT !.state = how, !.status = status]

\* the outer except Exception: a 500 reply, whose write raises in turn when the
\* client is gone
HandlerError(c) ==
    IF c.open THEN EndedRec(Sent(c, 500), "returned", 500)
              ELSE EndedRec(c, "raised", c.status)

\* the inner except Exception after process.kill(): a 502 reply; its failure
\* is raised into the outer handler
TranscodeFailed(c) ==
    IF c.open THEN EndedRec(Sent(c, 502), "returned", 502) ELSE HandlerError(c)

\* the inner except BrokenPipeError: prints bytes_sent, which is unbound until
\* the response headers have been sent (UnboundLocalError)
ClientGone(c) ==
    IF relay.bytes_sent_bound THEN EndedRec(c, "returned", c.status)
                              ELSE HandlerError(c)

\* handle_proxy_stream's except Exception: send_error(502), not guarded
ProxyFailed(c) ==
    IF c.open THEN EndedRec(Sent(c, 502), "returned", 502) ELSE HandlerError(c)

Return == cur' = 0 /\ relay' = IdleRelay

SIGTERM == 15
SIGKILL == 9

\* a signal ends a process that is running: its returncode is -signal
Signalled(pr, sig) ==
    IF pr.state = "running"
    THEN [pr EXCEPT !.state = "exited", !.returncode = 0 - sig]
    ELSE pr

KillProc(p) == [proc EXCEPT ![p] = Signalled([@ EXCEPT !.kill = TRUE], SIGKILL)]

\* serve_forever takes the next connection once no handler is running; do_GET
\* routes /stream to handle_stream_transcode, which parses the url parameter
StreamAccept(r) ==
    /\ ServerIdle
    /\ conns[r].state = "pending"
    /\ conns[r].kind = "stream"
    /\ IF conns[r].url = <<>>
       THEN /\ conns' = [conns EXCEPT ![r] =
                            IF @.open THEN EndedRec(Sent(@, 400), "returned", 400)
                                      ELSE HandlerError(@)]
            /\ UNCHANGED <<cur, relay>>
       ELSE /\ conns' = [conns EXCEPT ![r].state = "serving"]
            /\ cur' = r
            /\ relay' = [IdleRelay EXCEPT !.pc = "check"]
    /\ last' = RelayLog
    /\ UNCHANGED <<timeVars, partyVars, recVars, proc>>

\* serve_forever takes a /party/state request and runs its handler to the end
ServeOther(r) ==
    /\ ServerIdle
    /\ conns[r].state = "pending"
    /\ conns[r].kind = "state"
    /\ PartyStateBody(conns[r].url)
    /\ conns' = [conns EXCEPT ![r] =
                    IF @.open THEN EndedRec(Sent(@, last'.status), "returned", last'.status)
                              ELSE EndedRec(@, "raised", 0)]
    /\ UNCHANGED <<timeVars, recVars, cur, relay, proc>>

\* lines 471-479: where the handler goes after the tool check (first a faulty
\* variant without the fallback)
AfterToolCheck_NoFallback(ffmpeg, ffprobe) ==
    IF ffprobe THEN "probe" ELSE "spawn"

AfterToolCheck(ffmpeg, ffprobe) ==
    IF ~ffmpeg THEN "proxy"
    ELSE IF ffprobe THEN "probe" ELSE "spawn"

\* ffmpeg -version, ffprobe -version: a flag is True when the tool ran and
\* exited with 0; a missing tool or a timeout raises and leaves the flags that
\* were not yet set False. The connection remembers how the ffmpeg check went.
ToolCheck(ffmpeg, ffprobe) ==
    /\ relay.pc = "check"
    /\ relay' = [relay EXCEPT !.ffmpeg_available = ffmpeg,
                              !.ffprobe_available = ffprobe,
                              !.pc = AfterToolCheck(ffmpeg, ffprobe)]
    /\ conns' = [conns EXCEPT ![cur].tool = IF ffmpeg THEN "ok" ELSE "failed"]
    /\ last' = RelayLog
    /\ UNCHANGED <<timeVars, partyVars, recVars, cur, proc>>

H264 == <<"h","2","6","4">>
Hevc == <<"h","e","v","c">>

\* lines 493-508 (first a faulty variant that does not look at the exit code)
NeedsVideoTranscode_AnyExit(result) ==
    /\ result.how = "exit"
    /\ result.parsed
    /\ Len(result.streams) > 0
    /\ Lower(IF result.streams[1] = NoName THEN H264 ELSE result.streams[1]) = Hevc

NeedsVideoTranscode(result) ==
    /\ result.how = "exit"
    /\ result.returncode = 0
    /\ result.parsed
    /\ Len(result.streams) > 0
    /\ Lower(IF result.streams[1] = NoName THEN H264 ELSE result.streams[1]) = Hevc

\* ffprobe on the target: video is re-encoded only when it reports hevc
Probe(result) ==
    /\ relay.pc = "probe"
    /\ relay' = [relay EXCEPT !.needs_video_transcode = NeedsVideoTranscode(result),
                              !.probe = result, !.pc = "spawn"]
    /\ last' = RelayLog
    /\ UNCHANGED <<timeVars, partyVars, recVars, conns, cur, proc>>

\* subprocess.Popen(ffmpeg_cmd)
Spawn ==
    /\ relay.pc = "spawn"
    /\ proc' = Append(proc, [owner |-> cur, state |-> "running",
                             terminate |-> FALSE, kill |-> FALSE,
                             video |-> IF relay.needs_video_transcode
                                       THEN "libx264" ELSE "copy",
                             probe |-> relay.probe,
                             produced |-> FALSE, returncode |-> 0,
                             waited |-> FALSE])
    /\ relay' = [relay EXCEPT !.process = Len(proc) + 1, !.pc = "headers"]
    /\ last' = RelayLog
    /\ UNCHANGED <<timeVars, partyVars, recVars, conns, cur>>

\* Popen raises: process is unbound, process.kill() fails silently, 502
SpawnFails ==
    /\ relay.pc = "spawn"
    /\ conns' = [conns EXCEPT ![cur] = TranscodeFailed(@)]
    /\ Return
    /\ last' = RelayLog
    /\ UNCHANGED <<timeVars, partyVars, recVars, proc>>

\* send_response(200) ... end_headers(), which writes the header block
SendHeaders(outcome) ==
    /\ relay.pc = "headers"
    /\ outcome \in WriteOutcomes(conns[cur])
    /\ CASE outcome = "ok" ->
              /\ conns' = [conns EXCEPT ![cur] = Sent(@, 200)]
              /\ relay' = [relay EXCEPT !.bytes_sent_bound = TRUE,
                                        !.bytes_sent = 0, !.pc = "read"]
              /\ UNCHANGED <<cur, proc>>
         [] outcome = "BrokenPipeError" ->
              /\ conns' = [conns EXCEPT ![cur] =
                              ClientGone([@ EXCEPT !.write_failed = "headers"])]
              /\ Return
              /\ UNCHANGED proc
         [] outcome = "ConnectionResetError" ->
              /\ proc' = KillProc(relay.process)
              /\ conns' = [conns EXCEPT ![cur] =
                              TranscodeFailed([@ EXCEPT !.write_failed = "headers"])]
              /\ Return
    /\ last' = RelayLog
    /\ UNCHANGED <<timeVars, partyVars, recVars>>

\* ffmpeg ends by itself with 0 (end of input) or 1 (it failed)
ExitCodes == {0, 1}

\* process.stdout.read(chunk_size): a chunk, or nothing once ffmpeg has ended
ReadChunk(got) ==
    /\ relay.pc = "read"
    /\ IF got
       THEN /\ relay' = [relay EXCEPT !.pc = "write"]
            /\ proc' = [proc EXCEPT ![relay.process].produced = TRUE]
       ELSE /\ relay' = [relay EXCEPT !.pc = "cleanup"]
            /\ \E rc \in ExitCodes :
                  proc' = [proc EXCEPT ![relay.process].state = "exited",
                                       ![relay.process].returncode = rc]
    /\ last' = RelayLog
    /\ UNCHANGED <<timeVars, partyVars, recVars, conns, cur>>

\* self.wfile.write(chunk); only BrokenPipeError is caught around it
WriteChunk(outcome) ==
    /\ relay.pc = "write"
    /\ outcome \in WriteOutcomes(conns[cur])
    /\ CASE outcome = "ok" ->
              /\ relay' = [relay EXCEPT !.bytes_sent = @ + 1, !.pc = "read"]
              /\ UNCHANGED <<conns, cur, proc>>
         [] outcome = "BrokenPipeError" ->
              /\ relay' = [relay EXCEPT !.pc = "cleanup"]
              /\ conns' = [conns EXCEPT ![cur].write_failed = "chunk"]
              /\ UNCHANGED <<cur, proc>>
         [] outcome = "ConnectionResetError" ->
              /\ proc' = KillProc(relay.process)
              /\ conns' = [conns EXCEPT ![cur] =
                              TranscodeFailed([@ EXCEPT !.write_failed = "chunk"])]
              /\ Return
    /\ last' = RelayLog
    /\ UNCHANGED <<timeVars, partyVars, recVars>>

\* process.terminate(); process.wait(timeout=5); process.kill() on timeout.
\* The wait returns in time when the process has exited already or exits on
\* SIGTERM; nothing waits for the process after the kill.
Cleanup(timely) ==
    /\ relay.pc = "cleanup"
    /\ proc[relay.process].state = "exited" => timely
    /\ proc' = [proc EXCEPT ![relay.process] =
                    Signalled([@ EXCEPT !.terminate = TRUE, !.kill = @ \/ ~timely,
                                        !.waited = timely],
                              IF timely THEN SIGTERM ELSE SIGKILL)]
    /\ conns' = [conns EXCEPT ![cur] = EndedRec(@, "returned", @.status)]
    /\ Return
    /\ last' = RelayLog
    /\ UNCHANGED <<timeVars, partyVars, recVars>>

\* handle_proxy_stream: urlopen and the response headers
ProxyStart(upstream) ==
    /\ relay.pc = "proxy"
    /\ IF upstream /\ conns[cur].open
       THEN /\ conns' = [conns EXCEPT ![cur] = Sent(@, 200)]
            /\ relay' = [relay EXCEPT !.bytes_sent_bound = TRUE,
                                      !.bytes_sent = 0, !.pc = "proxy_read"]
            /\ UNCHANGED cur
       ELSE /\ conns' = [conns EXCEPT ![cur] =
                            ProxyFailed([@ EXCEPT !.upstream_failed = ~upstream])]
            /\ Return
    /\ last' = RelayLog
    /\ UNCHANGED <<timeVars, partyVars, recVars, proc>>

\* response.read(chunk_size)
ProxyRead(got) ==
    /\ relay.pc = "proxy_read"
    /\ IF got
       THEN /\ relay' = [relay EXCEPT !.pc = "proxy_write"]
            /\ UNCHANGED <<conns, cur>>
       ELSE /\ conns' = [conns EXCEPT ![cur] = EndedRec(@, "returned", @.status)]
            /\ Return
    /\ last' = RelayLog
    /\ UNCHANGED <<timeVars, partyVars, recVars, proc>>

\* response.read(chunk_size) raises: the upstream times out (60 s), resets
\* the connection or ends short of its Content-Length
ProxyReadFails ==
    /\ relay.pc = "proxy_read"
    /\ conns' = [conns EXCEPT ![cur] = ProxyFailed([@ EXCEPT !.upstream_failed = TRUE])]
    /\ Return
    /\ last' = RelayLog
    /\ UNCHANGED <<timeVars, partyVars, recVars, proc>>

\* self.wfile.write(chunk) of the fallback
ProxyWrite(outcome) ==
    /\ relay.pc = "proxy_write"
    /\ outcome \in WriteOutcomes(conns[cur])
    /\ CASE outcome = "ok" ->
              /\ relay' = [relay EXCEPT !.bytes_sent = @ + 1, !.pc = "proxy_read"]
              /\ UNCHANGED <<conns, cur>>
         [] outcome = "BrokenPipeError" ->
              /\ conns' = [conns EXCEPT ![cur] =
                              EndedRec([@ EXCEPT !.write_failed = "chunk"],
                                       "returned", @.status)]
              /\ Return
         [] outcome = "ConnectionResetError" ->
              /\ conns' = [conns EXCEPT ![cur] =
                              ProxyFailed([@ EXCEPT !.write_failed = "chunk"])]
              /\ Return
    /\ last' = RelayLog
    /\ UNCHANGED <<timeVars, partyVars, recVars, proc>>

----------------------------------------------------------------------------
(* Initial state: the module-level globals of lines 32-40, no request yet *)

Init ==
    /\ now = StartTime
    /\ ticks = 0
    /\ PARTIES = EmptyMap
    /\ MESSAGES = EmptyMap
    /\ accepted = EmptyMap
    /\ ACTIVE_RECORDINGS = EmptyMap
    /\ RECORDED_FILES = <<>>
    /\ disk = EmptyMap
    /\ platform = "posix"
    /\ tasks = <<>>
    /\ stopSeen = {}
    /\ reported = EmptyMap
    /\ deleted = {}
    /\ conns = <<>>
    /\ cur = 0
    /\ relay = IdleRelay
    /\ proc = <<>>
    /\ last = NoOp

----------------------------------------------------------------------------
(* The party store under a clock *)

CodeA == <<"A","B","C","1","2","3">>
CodeB == <<"Z","Z","9","9","Z","Z">>
GenCodes == {CodeA}
\* what clients send as the code: in lower case, and a code nobody holds
AskCodes == {<<"a","b","c","1","2","3">>, CodeB}
Users == {<<"a","l">>}
Patches == {[playing |-> TRUE]}
Texts == {<<"h","i">>, <<" ">>}

PartyJoinBounded(rawcode, username) ==
    /\ PartyFound(Upper(rawcode)) => Len(PARTIES[Upper(rawcode)].members) < MaxMembers
    /\ PartyJoin(rawcode, username)

PartySend(rawcode, username, rawtext) ==
    /\ PartyFound(Upper(rawcode)) /\ Upper(rawcode) \in DOMAIN MESSAGES
          => Len(MESSAGES[Upper(rawcode)]) < MaxPartyMsgs
    /\ SendMessage(rawcode, username, rawtext)

NextParty ==
    \/ \E d \in TickSteps : Tick(d)
    \/ \E u \in Users, c \in GenCodes : PartyCreate(u, c)
    \/ \E c \in AskCodes, u \in Users : PartyJoinBounded(c, u)
    \/ \E c \in AskCodes : PartyState(c)
    \/ \E c \in AskCodes : PartyMessages(c)
    \/ \E c \in AskCodes : PartyLeave(c)
    \/ \E c \in AskCodes, p \in Patches : PartyUpdate(c, p)
    \/ \E c \in AskCodes, u \in Users, t \in Texts : PartySend(c, u, t)

SpecParty == Init /\ [][NextParty]_vars

ReadOps == {"join", "state", "messages"}
ResolveOps == {"join", "state", "messages", "update", "send", "leave"}

\* C6: a join, state or messages request for a session whose lastActivity is more
\* than 3600 s old is answered 404 and leaves neither the session nor its chat log
\* in the store; and a code that is absent comes back only through create.
C6_ExpiredReadIsNotFound ==
    [][ /\ \A c \in DOMAIN PARTIES :
              (now - PARTIES[c].timestamp > 3600 /\ last'.op \in ReadOps /\ last'.code = c)
              => /\ last'.status = 404
                 /\ c \notin DOMAIN PARTIES'
                 /\ c \notin DOMAIN MESSAGES'
        /\ \A c \in DOMAIN PARTIES' :
              c \notin DOMAIN PARTIES => (last'.op = "create" /\ last'.code = c)
      ]_vars

\* C6 witness: a read has just evicted an expired session and answered 404
C6_Witness ==
    /\ last.op \in ReadOps
    /\ last.status = 404
    /\ last.evicted
    /\ last.code \notin DOMAIN PARTIES
    /\ last.code \notin DOMAIN MESSAGES

\* C7: no operation that resolves a party code (join, state, messages, update,
\* send-message, leave) leaves a session in the store whose lastActivity was more
\* than 3600 s old when the operation ran: such a session is purged instead.
C7_ExpiryEvaluatedFirst ==
    [][ \A c \in DOMAIN PARTIES :
            (now - PARTIES[c].timestamp > 3600 /\ last'.op \in ResolveOps /\ last'.code = c)
            => c \notin DOMAIN PARTIES'
      ]_vars

RefreshOps == {"join", "state", "messages", "update", "send"}

\* C31: a join, state, messages, update or send-message request that succeeds
\* sets the session's lastActivity to the current time, and none of them evicts
\* a session that was accessed within the last 3600 s; a send-message that is
\* rejected for its text leaves lastActivity as it was.
C31_AccessKeepsSessionAlive ==
    [][ /\ (last'.op \in RefreshOps /\ last'.status = 200) =>
              /\ last'.code \in DOMAIN PARTIES'
              /\ PARTIES'[last'.code].timestamp = now
        /\ \A c \in DOMAIN PARTIES :
              (last'.op \in RefreshOps /\ now - PARTIES[c].timestamp <= 3600)
                  => c \in DOMAIN PARTIES'
        /\ (last'.op = "send" /\ last'.status = 400) =>
              /\ last'.code \in DOMAIN PARTIES
              /\ PARTIES' = PARTIES
      ]_vars

\* a session created at the start is read 3600 s later and again 3600 s after
\* that, and is there
C31_Witness ==
    /\ now = StartTime + 2 * PartyTTL
    /\ last.op \in RefreshOps /\ last.status = 200
    /\ last.code \in DOMAIN PARTIES
    /\ PARTIES[last.code].timestamp = now
    /\ PARTIES[last.code].members[1].timestamp = StartTime

\* C32: the codes that have a chat log are the codes that have a session.
C32_LogsMatchSessions == DOMAIN MESSAGES = DOMAIN PARTIES

\* a send-message request has just evicted an expired session, and its chat
\* log with it
C32_Witness ==
    /\ last.op = "send" /\ last.evicted
    /\ last.code \notin DOMAIN PARTIES
    /\ last.code \notin DOMAIN MESSAGES

\* C33: a create that draws a code held by a session is answered like any
\* other create and replaces that session: the code then denotes a session of
\* the new host alone, in the state of a new session and with an empty chat log.
C33_CreateReplacesHeldCode ==
    [][\A u \in Users, c \in GenCodes :
          (last'.op = "create" /\ c \in DOMAIN PARTIES /\ PartyCreate(u, c)) =>
              /\ last'.status = 200
              /\ PARTIES'[c].host = u
              /\ Len(PARTIES'[c].members) = 1
              /\ PARTIES'[c].members[1].id = HostId
              /\ PARTIES'[c].members[1].username = u
              /\ PARTIES'[c].channel = <<>>
              /\ ~PARTIES'[c].playing
              /\ PARTIES'[c].currentTime = 0
              /\ MESSAGES'[c] = <<>>]_vars

\* the code of a session has just been drawn again
C33_Witness ==
    /\ last.op = "create" /\ last.acted
    /\ Len(PARTIES[last.code].members) = 1
    /\ MESSAGES[last.code] = <<>>

----------------------------------------------------------------------------
(* The members list of a session that guests join one after the other *)
MaxGuests == 2

Bo == <<"b","o">>
JoinUsers == Users \cup {Bo}

JoinUpTo(rawcode, username) ==
    /\ PartyFound(Upper(rawcode)) => Len(PARTIES[Upper(rawcode)].members) <= MaxGuests
    /\ PartyJoin(rawcode, username)

NextJoin ==
    \/ Tick(PartyTTL)
    \/ \E u \in JoinUsers, c \in GenCodes : PartyCreate(u, c)
    \/ \E c \in AskCodes, u \in JoinUsers : JoinUpTo(c, u)
    \/ \E c \in AskCodes : PartyLeave(c)

SpecJoin == Init /\ [][NextJoin]_vars

HostFirstIdsDistinct ==
    \A c \in DOMAIN PARTIES :
        LET members == PARTIES[c].members IN
        /\ Len(members) >= 1
        /\ members[1].id = HostId
        /\ members[1].username = PARTIES[c].host
        /\ \A i, j \in 1..Len(members) : i # j => members[i].id # members[j].id

\* C35: the members list of a session starts with the host, whose id is
\* 'host'; a join puts the user who joins at its end and no request takes a
\* member away or changes one; the ids of the members are pairwise distinct.
C35_MembersAppendOnly ==
    /\ []HostFirstIdsDistinct
    /\ [][
            /\ \A c \in DOMAIN PARTIES \cap DOMAIN PARTIES' :
                LET before == PARTIES[c].members
                    after  == PARTIES'[c].members
                IN  \/ last'.op = "create" /\ last'.code = c
                    \/ after = before
                    \/ /\ last'.op = "join" /\ last'.code = c /\ last'.status = 200
                       /\ Len(after) = Len(before) + 1
                       /\ SubSeq(after, 1, Len(before)) = before
            /\ \A c \in AskCodes, u \in JoinUsers :
                (last'.op = "join" /\ last'.status = 200 /\ JoinUpTo(c, u)) =>
                    LET after == PARTIES'[Upper(c)].members
                    IN  /\ Len(after) = Len(PARTIES[Upper(c)].members) + 1
                        /\ after[Len(after)].username = u ]_vars

\* two guests have joined a session after its host, a different user each time
C35_Witness ==
    /\ last.op = "join" /\ last.status = 200
    /\ Len(PARTIES[last.code].members) = 3
    /\ PARTIES[last.code].members[1].username = Bo
    /\ PARTIES[last.code].members[2].username # Bo
    /\ PARTIES[last.code].members[3].username = Bo
    /\ PARTIES[last.code].members[2].id = MemberId(1)
    /\ PARTIES[last.code].members[3].id = MemberId(2)

----------------------------------------------------------------------------
(* The host's updates of a live session: every body that carries some of
   channel, playing and currentTime *)

BBC == <<"B","B","C">>

\* a body with or without each field
Bodies(field, values) == {EmptyMap} \cup {field :> v : v \in values}

UpdatePatches ==
    { c @@ p @@ t : c \in Bodies("channel", {BBC}),
                    p \in Bodies("playing", {TRUE, FALSE}),
                    t \in Bodies("currentTime", {0, 7}) }

NextUpdate ==
    \/ Tick(PartyTTL)
    \/ \E u \in Users, c \in GenCodes : PartyCreate(u, c)
    \/ \E c \in AskCodes, u \in Users : PartyJoinBounded(c, u)
    \/ \E c \in AskCodes, patch \in UpdatePatches : PartyUpdate(c, patch)

SpecUpdate == Init /\ [][NextUpdate]_vars

\* C22: update on a live session overwrites exactly those of channel, playing
\* and currentTime that the body carries, leaves the others as they were, and
\* never changes host and members.
C22_UpdateOverwritesPresentFields ==
    [][\A c \in AskCodes, patch \in UpdatePatches :
          ( /\ last'.op = "update" /\ last'.status = 200 /\ last'.code = Upper(c)
            /\ PartyFound(Upper(c))
            /\ PartyUpdate(c, patch) ) =>
              /\ Upper(c) \in DOMAIN PARTIES'
              /\ \A f \in PatchFields :
                    PARTIES'[Upper(c)][f] =
                        IF f \in DOMAIN patch THEN patch[f] ELSE PARTIES[Upper(c)][f]
              /\ PARTIES'[Upper(c)].host = PARTIES[Upper(c)].host
              /\ PARTIES'[Upper(c)].members = PARTIES[Upper(c)].members]_vars

\* an update of playing alone on a session that plays BBC at 7 s with a guest
C22_Witness ==
    /\ last.op = "update" /\ last.status = 200
    /\ \E code \in DOMAIN PARTIES :
          /\ PARTIES[code].channel = BBC
          /\ PARTIES[code].currentTime = 7
          /\ PARTIES[code].playing
          /\ Len(PARTIES[code].members) = 2

----------------------------------------------------------------------------
(* Chat texts at the edges: empty, blank, and longer than the limit *)

Spaces(n) == [i \in 1..n |-> " "]

\* empty; blank; blank up to the limit with a letter behind it; a letter with
\* blanks up to behind the limit; a short text
SendTexts ==
    { <<>>, <<" ", "\t", "\n">>, Spaces(TextLimit) \o <<"x">>,
      <<"x">> \o Spaces(TextLimit), <<"h","i">> }

\* texts that are stored count against the bound, the others do not
SendText(rawcode, username, rawtext) ==
    IF IsBlank(Take(rawtext, TextLimit))
    THEN SendMessage(rawcode, username, rawtext)
    ELSE PartySend(rawcode, username, rawtext)

NextSend ==
    \/ Tick(PartyTTL)
    \/ \E u \in Users, c \in GenCodes : PartyCreate(u, c)
    \/ \E c \in AskCodes, u \in Users, t \in SendTexts : SendText(c, u, t)
    \/ \E c \in AskCodes : PartyMessages(c)

SpecSend == Init /\ [][NextSend]_vars

\* C23: a message for a live session whose text, cut to 500 characters, is empty
\* or all whitespace is answered 400 and leaves the chat log as it was; and
\* every stored message has a non-blank text of at most 500 characters.
C23_BlankTextIsRejected ==
    /\ [](\A c \in DOMAIN MESSAGES : \A i \in 1..Len(MESSAGES[c]) :
             /\ Len(MESSAGES[c][i].text) <= 500
             /\ \E k \in 1..Len(MESSAGES[c][i].text) :
                    MESSAGES[c][i].text[k] \notin Whitespace)
    /\ [][\A c \in AskCodes, u \in Users, t \in SendTexts :
            ( /\ last'.op = "send"
              /\ PartyFound(Upper(c))
              /\ \A k \in 1..Min(Len(t), 500) : t[k] \in Whitespace
              /\ SendMessage(c, u, t) )
            => last'.status = 400 /\ MESSAGES' = MESSAGES]_vars

\* a text that is blank only after the cut was rejected while a message is stored
C23_Witness ==
    /\ last.op = "send" /\ last.status = 400
    /\ \E c \in DOMAIN MESSAGES :
          Len(MESSAGES[c]) = 1 /\ Len(MESSAGES[c][1].text) = 500

----------------------------------------------------------------------------
(* Recordings: the recorder threads, stop, delete and play under a clock *)

MaxTasks == 1
MaxChunks == 1
MaxRecTicks == 1
MaxFileTasks == 1

News == <<"N","e","w","s">>
Slashed == <<"a","/","b">>
Url1 == <<"u">>
RecChannels == {News, Slashed}
Urls == {<<>>, Url1}
ClientDurations == {0, 5}

\* a recording of an earlier run of the server, and a file beside server.py
OldRecording == <<"r","e","c","_","1","2","3","_","N","e","w","s",".","t","s">>
BesideName == <<"x",".","t","s">>

\* the file names clients ask to delete or play
NewRecording == FileName(StartTime, News)
PasswdAsk == <<".",".","/",".",".","/","e","t","c","/","p","a","s","s","w","d">>
TraversalAsk == <<"r","e","c","_","/",".",".","/",".",".","/","x",".","t","s">>
NoDigitsAsk == <<"r","e","c","_","a","b","c",".","t","s">>
NoSuffixAsk == <<"r","e","c","_","x">>
FileAsks == {OldRecording, NewRecording, PasswdAsk, TraversalAsk, NoDigitsAsk, NoSuffixAsk}

\* Range headers of play requests: bytes=a-b for all small offsets (inside the
\* file, the whole file, reversed), open-ended, a suffix range, a bare
\* number, past the end of the file, two ranges, junk
MaxOffset == 3

RangeOf(a, b) == BytesEq \o DigitsOf(a) \o <<"-">> \o DigitsOf(b)

RangeHeaders ==
    { RangeOf(a, b) : a \in 0..MaxOffset, b \in 0..MaxOffset } \cup
    { BytesEq \o <<"2","-">>, BytesEq \o <<"-","2">>,
      BytesEq \o <<"1">>, RangeOf(0, 10),
      BytesEq \o <<"0","-","1",",","2","-","3">>, <<"x">> }
RangeAsks == {OldRecording, NewRecording, TraversalAsk, NoDigitsAsk, PasswdAsk}

\* The server may run on either platform, and starts in a directory that
\* holds files: recordings/ may be left from an earlier run (line 38).
InitOn(files) ==
    /\ now = StartTime
    /\ ticks = 0
    /\ PARTIES = EmptyMap
    /\ MESSAGES = EmptyMap
    /\ accepted = EmptyMap
    /\ ACTIVE_RECORDINGS = EmptyMap
    /\ RECORDED_FILES = <<>>
    /\ platform \in {"posix", "nt"}
    /\ disk = [loc \in files |-> [size |-> 4, ino |-> 0]]
    /\ tasks = <<>>
    /\ stopSeen = {}
    /\ reported = EmptyMap
    /\ deleted = {}
    /\ conns = <<>>
    /\ cur = 0
    /\ relay = IdleRelay
    /\ proc = <<>>
    /\ last = NoOp

InitFiles == InitOn({<<RecDirName, OldRecording>>, <<BesideName>>})

RecTick ==
    /\ ticks < MaxRecTicks
    /\ Tick(1)

StartBounded(channel, url) ==
    /\ Len(tasks) < MaxTasks
    /\ RecordingStart(channel, url)

ChunkBounded(t) ==
    /\ tasks[t].bytes_written < MaxChunks
    /\ TaskChunk(t)

NextRec ==
    \/ RecTick
    \/ \E c \in RecChannels, u \in Urls : StartBounded(c, u)
    \/ \E t \in 1..Len(tasks) : TaskBegin(t)
    \/ \E t \in 1..Len(tasks) : TaskConnect(t)
    \/ \E t \in 1..Len(tasks) : TaskConnectFails(t)
    \/ \E t \in 1..Len(tasks) : ChunkBounded(t)
    \/ \E t \in 1..Len(tasks) : TaskStreamEnds(t)
    \/ \E t \in 1..Len(tasks) : TaskWriteFails(t)
    \/ \E t \in 1..Len(tasks) : TaskExists(t)
    \/ \E t \in 1..Len(tasks) : TaskStat(t)
    \/ \E t \in 1..Len(tasks) : TaskPublish(t)
    \/ \E t \in 1..Len(tasks) : TaskCleanup(t)
    \/ \E c \in RecChannels, d \in ClientDurations : RecordingStop(c, d)

SpecRec == Init /\ [][NextRec]_vars

\* C3: once a stopRecording(channel) call has been answered, a recording task of
\* that channel that was running when it was issued pulls nothing more from the
\* source: it is on its way through the cleanup path.
C3_StopEndsTheTask ==
    [][ \A t \in 1..Len(tasks) :
            t \in stopSeen => tasks'[t].bytes_written = tasks[t].bytes_written ]_vars

\* C4: while the background task of a startRecording call runs, ACTIVE_RECORDINGS
\* holds an entry under the returned recordingId with that channel and source url.
C4_ActiveEntryWhileRunning ==
    \A t \in 1..Len(tasks) :
        Running(t) =>
            /\ tasks[t].filename \in DOMAIN ACTIVE_RECORDINGS
            /\ ACTIVE_RECORDINGS[tasks[t].filename].channel = tasks[t].channel
            /\ ACTIVE_RECORDINGS[tasks[t].filename].url = tasks[t].url

\* C11: once the recorder task of a recording has finished, the catalog entry of
\* the recording carries the last positive duration a stop request reported for
\* its channel, whether the stop came before or after the task published it.
C11_ClientDurationWins ==
    \A t \in DOMAIN reported :
        (tasks[t].pc = "done" /\ CatalogHas(tasks[t].filename)) =>
            RECORDED_FILES[CatalogIndex(tasks[t].filename)].duration = reported[t]

OneTask(channel, url) ==
    /\ Len(tasks) < MaxFileTasks
    /\ RecordingStart(channel, url)

NextFiles ==
    \/ OneTask(News, Url1)
    \/ \E t \in 1..Len(tasks) : TaskBegin(t)
    \/ \E t \in 1..Len(tasks) : TaskConnect(t)
    \/ \E t \in 1..Len(tasks) : TaskConnectFails(t)
    \/ \E t \in 1..Len(tasks) : ChunkBounded(t)
    \/ \E t \in 1..Len(tasks) : TaskStreamEnds(t)
    \/ \E t \in 1..Len(tasks) : TaskWriteFails(t)
    \/ \E t \in 1..Len(tasks) : TaskExists(t)
    \/ \E t \in 1..Len(tasks) : TaskStat(t)
    \/ \E t \in 1..Len(tasks) : TaskPublish(t)
    \/ \E t \in 1..Len(tasks) : TaskCleanup(t)
    \/ \E f \in FileAsks : RecordingDelete(f)
    \/ \E f \in FileAsks \cup {<<>>} : RecordingPlay(f)
    \/ \E f \in RangeAsks, h \in RangeHeaders : RecordingPlayRange(f, h)

SpecFiles == InitFiles /\ [][NextFiles]_vars

\* The delete and play handlers alone, on the files that are there at start
NextServe ==
    \/ \E f \in FileAsks : RecordingDelete(f)
    \/ \E f \in FileAsks \cup {<<>>} : RecordingPlay(f)
    \/ \E f \in RangeAsks, h \in RangeHeaders : RecordingPlayRange(f, h)

SpecServe == InitFiles /\ [][NextServe]_vars

InRecordingsDir(loc) == Len(loc) = 2 /\ loc[1] = RecDirName

\* C9: the file a delete request unlinks or a play request serves is a direct
\* child of the recordings directory.
C9_Contained ==
    (last.op \in {"delete", "play"} /\ last.acted) => InRecordingsDir(last.loc)

IsDigit(ch) == \E i \in 1..10 : DigitChars[i] = ch

\* rec_<digits>_<text>.ts
MatchesConvention(name) ==
    /\ StartsWith(name, RecPrefix)
    /\ EndsWith(name, TsSuffix)
    /\ \E k \in 5..(Len(name) - 4) :
          /\ \A i \in 5..k : IsDigit(name[i])
          /\ name[k + 1] = "_"

Rejected400 ==
    /\ last'.status = 400
    /\ ~last'.fs
    /\ disk' = disk
    /\ RECORDED_FILES' = RECORDED_FILES

\* C10 as stated: delete and play answer 400, without a file system call and with
\* disk and catalog unchanged, for every file name that is not
\* rec_<digits>_<text>.ts.
C10_RejectsAllButConvention ==
    [][ (last'.op \in {"delete", "play"} /\ ~MatchesConvention(last'.code))
            => Rejected400 ]_vars

\* C10 as amended: delete and play answer 400, without a file system call and
\* with disk and catalog unchanged, for every file name that does not start with
\* rec_ or does not end with .ts; rec_123_News.ts is not rejected.
C10_RejectsAllButRecTs ==
    [][ /\ (/\ last'.op \in {"delete", "play"}
             /\ ~(StartsWith(last'.code, RecPrefix) /\ EndsWith(last'.code, TsSuffix)))
            => Rejected400
        /\ (last'.op \in {"delete", "play"} /\ last'.code = OldRecording)
            => last'.status # 400
      ]_vars

\* C10 witness: ../../etc/passwd has just been rejected
C10_Witness ==
    /\ last.op \in {"delete", "play"}
    /\ last.code = PasswdAsk
    /\ last.status = 400
    /\ <<RecDirName, OldRecording>> \in DOMAIN disk

\* C19: a file name that a delete request has removed with success is, until a
\* recording creates a file of that name, absent from disk, from the catalog
\* and from what list returns.
C19_DeletedStaysGone ==
    \A f \in deleted :
        /\ ~Exists(RecordingPath(f))
        /\ ~CatalogHas(f)
        /\ f \notin Listed

\* C20: a play request with a Range header that is answered 206 has
\* 0 <= start <= end < file size in its Content-Range, and its Content-Length
\* is end - start + 1 and is the number of body bytes sent.
C20_RangeReplyIsSound ==
    (last.op = "play" /\ last.reply.ranged /\ last.status = 206) =>
        /\ 0 <= last.reply.start
        /\ last.reply.start <= last.reply.end
        /\ last.reply.end < last.reply.size
        /\ last.reply.length = last.reply.end - last.reply.start + 1
        /\ last.reply.length = last.reply.sent

\* C30: whatever the recorder threads and the delete requests do, every entry
\* of the catalog names a file that exists in the recordings directory.
C30_CatalogNamesFiles ==
    \A i \in 1..Len(RECORDED_FILES) :
        /\ Exists(RecordingPath(RECORDED_FILES[i].filename))
        /\ RECORDED_FILES[i].filename \in Listed

\* C27: a delete or play request that names a rec_*.ts file that is not there is
\* answered 404 (and changes neither the disk nor the catalog).
C27_MissingFileIs404 ==
    ( /\ last.op \in {"delete", "play"}
      /\ FilenameAllowed(last.code)
      /\ ~last.acted
      /\ ~Exists(RecordingPath(last.code)) )
    => last.status = 404

\* C21: a play request for an existing recording with Range: bytes=a-b where
\* 0 <= a <= b < file size is answered 206 with Content-Range a-b/size and the
\* b - a + 1 bytes that start at offset a.
C21_RangeInsideFile ==
    [][\A f \in RangeAsks, a \in 0..(MaxOffset + 1), b \in 0..(MaxOffset + 1) :
          ( /\ a <= b /\ last'.op = "play" /\ last'.code = f
            /\ FilenameAllowed(f) /\ Exists(RecordingPath(f))
            /\ b < disk[RecordingPath(f)].size
            /\ RecordingPlayRange(f, RangeOf(a, b)) )
          => /\ last'.status = 206
             /\ last'.reply = [ranged |-> TRUE, start |-> a, end |-> b,
                               length |-> b - a + 1, sent |-> b - a + 1,
                               size |-> disk[RecordingPath(f)].size]]_vars

C21_Witness ==
    /\ last.op = "play" /\ last.status = 206 /\ last.reply.ranged
    /\ last.reply.start = 1 /\ last.reply.end = 2 /\ last.reply.sent = 2
    /\ last.reply.size = 4

----------------------------------------------------------------------------
(* Listing: files of an earlier run, one of them without a timestamp in its
   name, and one recording of this run that ends up in the catalog *)

Mtimes == {StartTime - 50, StartTime, StartTime + 50}

InitList == InitOn({<<RecDirName, OldRecording>>, <<RecDirName, NoDigitsAsk>>})

\* the files of the earlier run were all written at the same time
OldMtimes == { [f \in Listed |-> mtime] : mtime \in Mtimes }

NextList ==
    \/ OneTask(News, Url1)
    \/ \E t \in 1..Len(tasks) : TaskBegin(t)
    \/ \E t \in 1..Len(tasks) : TaskConnect(t)
    \/ \E t \in 1..Len(tasks) : TaskConnectFails(t)
    \/ \E t \in 1..Len(tasks) : ChunkBounded(t)
    \/ \E t \in 1..Len(tasks) : TaskStreamEnds(t)
    \/ \E t \in 1..Len(tasks) : TaskWriteFails(t)
    \/ \E t \in 1..Len(tasks) : TaskExists(t)
    \/ \E t \in 1..Len(tasks) : TaskStat(t)
    \/ \E t \in 1..Len(tasks) : TaskPublish(t)
    \/ \E t \in 1..Len(tasks) : TaskCleanup(t)
    \/ \E order \in GlobOrders, mtimes \in OldMtimes : RecordingList(order, mtimes)

SpecList == InitList /\ [][NextList]_vars

\* C24: list returns the recordings in non-increasing order of timestamp,
\* whichever of them come from the catalog and whichever from the file names.
C24_ListIsNewestFirst ==
    last.op = "list" =>
        \A i, j \in 1..Len(last.listing) :
            i < j => last.listing[i].timestamp >= last.listing[j].timestamp

\* a listing of three recordings: the file without a timestamp first, by its
\* mtime, and an entry of the catalog last
C24_Witness ==
    /\ last.op = "list" /\ Len(last.listing) = 3
    /\ last.listing[1].filename = NoDigitsAsk
    /\ last.listing[2].filename = OldRecording
    /\ CatalogHas(last.listing[3].filename)
    /\ last.listing[1].timestamp > last.listing[2].timestamp
    /\ last.listing[2].timestamp > last.listing[3].timestamp

----------------------------------------------------------------------------
(* Listing a recording that is being made: its file is there and the catalog
   has no entry for it yet, so list reads the details back from the name *)

Underscored == <<"a","_","b">>
Dotted == <<"a",".","t","s","b">>
NameChannels == {News, Slashed, Underscored, Dotted}

NextNames ==
    \/ RecTick
    \/ \E c \in NameChannels : OneTask(c, Url1)
    \/ \E t \in 1..Len(tasks) : TaskBegin(t)
    \/ \E t \in 1..Len(tasks) : TaskConnect(t)
    \/ \E t \in 1..Len(tasks) : ChunkBounded(t)
    \/ \E t \in 1..Len(tasks) : TaskStreamEnds(t)
    \/ \E t \in 1..Len(tasks) : TaskExists(t)
    \/ \E t \in 1..Len(tasks) : TaskStat(t)
    \/ \E t \in 1..Len(tasks) : TaskPublish(t)
    \/ \E t \in 1..Len(tasks) : TaskCleanup(t)
    \/ \E order \in GlobOrders, mtimes \in OldMtimes : RecordingList(order, mtimes)

SpecNames == Init /\ [][NextNames]_vars

\* C36: for the file of a recording that start created and that has no
\* catalog entry, list reports the second of the start that is in the name as
\* timestamp, now minus that as duration, and as channel the sanitized channel
\* name that start put into the name.
C36_ListReadsNameBack ==
    last.op = "list" =>
        \A i \in 1..Len(last.listing), t \in 1..Len(tasks) :
            ( /\ last.listing[i].filename = tasks[t].filename
              /\ ~CatalogHas(tasks[t].filename) )
            => /\ tasks[t].filename = FileName(last.listing[i].timestamp, tasks[t].channel)
               /\ last.listing[i].duration = now - last.listing[i].timestamp
               /\ last.listing[i].channel = SafeChannel(tasks[t].channel)

----------------------------------------------------------------------------
(* Stop requests around one recording: before it is in the catalog, after,
   and for a channel that was never recorded *)

NextStop ==
    \/ OneTask(News, Url1)
    \/ \E t \in 1..Len(tasks) : TaskBegin(t)
    \/ \E t \in 1..Len(tasks) : TaskConnect(t)
    \/ \E t \in 1..Len(tasks) : TaskConnectFails(t)
    \/ \E t \in 1..Len(tasks) : ChunkBounded(t)
    \/ \E t \in 1..Len(tasks) : TaskStreamEnds(t)
    \/ \E t \in 1..Len(tasks) : TaskWriteFails(t)
    \/ \E t \in 1..Len(tasks) : TaskExists(t)
    \/ \E t \in 1..Len(tasks) : TaskStat(t)
    \/ \E t \in 1..Len(tasks) : TaskPublish(t)
    \/ \E t \in 1..Len(tasks) : TaskCleanup(t)
    \/ \E c \in RecChannels, d \in ClientDurations : RecordingStop(c, d)

SpecStop == Init /\ [][NextStop]_vars

\* C26: a stop request for a channel that no active recording matches is
\* answered 200 with success, whether a catalog entry of the channel got the
\* client's duration or no catalog entry matched.
C26_StopWithoutActiveIsSuccess ==
    [][\A c \in RecChannels, d \in ClientDurations :
          ( /\ last'.op = "stop"
            /\ \A f \in DOMAIN ACTIVE_RECORDINGS : ACTIVE_RECORDINGS[f].channel # c
            /\ RecordingStop(c, d) )
          => last'.status = 200 /\ last'.ok]_vars

\* a stop that found no active recording was answered, once with the catalog
\* entry of the channel taking the client's duration ...
C26_Witness ==
    /\ last.op = "stop" /\ ~last.acted /\ last.status = 200
    /\ \E i \in 1..Len(RECORDED_FILES) :
          RECORDED_FILES[i].channel = last.code /\ RECORDED_FILES[i].duration = 5

----------------------------------------------------------------------------
(* Stop requests on a catalog of several recordings, made one after the
   other, of the same channel or of two channels *)
MaxCatalog == 2

StopDurations == {0 - 1, 0, 5}

\* the next recording is started when the one before has ended
StartNext(channel, url) ==
    /\ Len(tasks) < MaxCatalog
    /\ \A t \in 1..Len(tasks) : tasks[t].pc = "done"
    /\ RecordingStart(channel, url)

\* the clock is watched between two recordings
TickBetween ==
    /\ \A t \in 1..Len(tasks) : tasks[t].pc = "done"
    /\ RecTick

NextDurations ==
    \/ TickBetween
    \/ \E c \in RecChannels : StartNext(c, Url1)
    \/ \E t \in 1..Len(tasks) : TaskBegin(t)
    \/ \E t \in 1..Len(tasks) : TaskConnect(t)
    \/ \E t \in 1..Len(tasks) : TaskStreamEnds(t)
    \/ \E t \in 1..Len(tasks) : TaskExists(t)
    \/ \E t \in 1..Len(tasks) : TaskStat(t)
    \/ \E t \in 1..Len(tasks) : TaskPublish(t)
    \/ \E t \in 1..Len(tasks) : TaskCleanup(t)
    \/ \E c \in RecChannels, d \in StopDurations : RecordingStop(c, d)

SpecDurations == Init /\ [][NextDurations]_vars

----------------------------------------------------------------------------
(* The chat log of one session under a client that numbers its messages *)

Blank == <<" ", "\t">>

\* the n-th message a client posts carries the text str(n)
ChatPost(code, username) ==
    /\ code \in DOMAIN accepted
    /\ Len(accepted[code]) < MaxPosts
    /\ \E t \in {DigitsOf(Len(accepted[code]) + 1), Blank} : SendMessage(code, username, t)

NextChat ==
    \/ \E u \in Users : PartyCreate(u, CodeA)
    \/ \E u \in Users : ChatPost(CodeA, u)
    \/ PartyMessages(CodeA)

SpecChat == Init /\ [][NextChat]_vars

\* C8: the stored chat log of a session is exactly the last min(n, 100) of the n
\* messages accepted for it, in the order they were accepted, and never holds
\* more than 100 messages.
C8_ChatLogIsLast100 ==
    \A c \in DOMAIN MESSAGES :
        LET n == Len(accepted[c])
            k == IF n < 100 THEN n ELSE 100
        IN  /\ Len(MESSAGES[c]) = k
            /\ Len(MESSAGES[c]) <= 100
            /\ \A i \in 1..k : MESSAGES[c][i] = accepted[c][n - k + i]

\* C8 witness: more than 100 messages were accepted and the oldest were dropped
C8_Witness ==
    /\ CodeA \in DOMAIN MESSAGES
    /\ Len(accepted[CodeA]) = 102
    /\ Len(MESSAGES[CodeA]) = 100
    /\ MESSAGES[CodeA][1].text = <<"3">>
    /\ MESSAGES[CodeA][100].text = <<"1","0","2">>

----------------------------------------------------------------------------
(* One recording against the clock: a source that pauses, and a recording
   that runs into the duration limit. No stop request is made. *)
MaxTimedTicks == 2

TimedSteps == {NO_DATA_TIMEOUT + 1, MAX_DURATION}

TimedTick(d) ==
    /\ ticks < MaxTimedTicks
    /\ Tick(d)

NextTimed ==
    \/ \E d \in TimedSteps : TimedTick(d)
    \/ OneTask(News, Url1)
    \/ \E t \in 1..Len(tasks) : TaskBegin(t)
    \/ \E t \in 1..Len(tasks) : TaskConnect(t)
    \/ \E t \in 1..Len(tasks) : TaskConnectFails(t)
    \/ \E t \in 1..Len(tasks) : ChunkBounded(t)
    \/ \E t \in 1..Len(tasks) : TaskEmptyChunk(t)
    \/ \E t \in 1..Len(tasks) : TaskStreamEnds(t)
    \/ \E t \in 1..Len(tasks) : TaskWriteFails(t)
    \/ \E t \in 1..Len(tasks) : TaskExists(t)
    \/ \E t \in 1..Len(tasks) : TaskStat(t)
    \/ \E t \in 1..Len(tasks) : TaskPublish(t)
    \/ \E t \in 1..Len(tasks) : TaskCleanup(t)

SpecTimed == Init /\ [][NextTimed]_vars

\* C12: a recording task whose source has delivered nothing for longer than the
\* idle window (2 s) takes no further step inside its fetch loop: its next step
\* leaves the loop towards finalization.
C12_IdleWindowEndsLoop ==
    [][ \A t \in 1..Len(tasks) :
            (/\ tasks[t].pc = "loop"
             /\ now - tasks[t].last_data_time > NO_DATA_TIMEOUT
             /\ tasks'[t] # tasks[t])
                => tasks'[t].pc # "loop" ]_vars

\* C13: no recording task is in its fetch loop more than 36000 seconds after
\* the loop started.
C13_LoopEndsAtCap ==
    \A t \in 1..Len(tasks) :
        tasks[t].pc = "loop" => now - tasks[t].start_time <= MAX_DURATION

\* C28: when a recorder task has ended, on whatever path, the catalog holds
\* an entry for its file if and only if the file exists, with the size of the
\* file, a duration of at least 1 and the start time of the task; and no
\* active entry of its file name is left.
C28_EndedTaskIsPublished ==
    \A t \in 1..Len(tasks) :
        tasks[t].pc = "done" =>
            /\ CatalogHas(tasks[t].filename) <=> Exists(RecordingPath(tasks[t].filename))
            /\ CatalogHas(tasks[t].filename) =>
                  LET entry == RECORDED_FILES[CatalogIndex(tasks[t].filename)]
                  IN  /\ entry.size = disk[RecordingPath(tasks[t].filename)].size
                      /\ entry.duration >= 1
                      /\ entry.timestamp = tasks[t].actual_start_time
            /\ tasks[t].filename \notin DOMAIN ACTIVE_RECORDINGS

----------------------------------------------------------------------------
(* Two startRecording calls for the same channel within the same second: the
   clock does not advance, so both compute the same file name. *)
MaxTwinTasks == 2

TwinStart ==
    /\ Len(tasks) < MaxTwinTasks
    /\ RecordingStart(News, Url1)

NextTwin ==
    \/ TwinStart
    \/ \E t \in 1..Len(tasks) : TaskBegin(t)
    \/ \E t \in 1..Len(tasks) : TaskConnect(t)
    \/ \E t \in 1..Len(tasks) : TaskConnectFails(t)
    \/ \E t \in 1..Len(tasks) : ChunkBounded(t)
    \/ \E t \in 1..Len(tasks) : TaskStreamEnds(t)
    \/ \E t \in 1..Len(tasks) : TaskWriteFails(t)
    \/ \E t \in 1..Len(tasks) : TaskExists(t)
    \/ \E t \in 1..Len(tasks) : TaskStat(t)
    \/ \E t \in 1..Len(tasks) : TaskPublish(t)
    \/ \E t \in 1..Len(tasks) : TaskCleanup(t)

SpecTwin == Init /\ [][NextTwin]_vars

\* the thread has the file open for writing
Writing(t) == tasks[t].pc = "loop"

\* C14: at no time do two recording tasks have the same file open for writing.
C14_ExclusiveWrite ==
    \A t1, t2 \in 1..Len(tasks) :
        (t1 # t2 /\ Writing(t1) /\ Writing(t2)) =>
            ~(/\ RecordingPath(tasks[t1].filename) = RecordingPath(tasks[t2].filename)
              /\ tasks[t1].ino = tasks[t2].ino)

----------------------------------------------------------------------------
(* The relay under load: up to MaxConns connections, each a /stream request
   or a /party/state poll, and up to MaxRelayChunks chunks per relay. *)
MaxConns == 2
MaxRelayChunks == 1

StreamUrls == {<<>>, Url1}

\* what ffprobe can give: no answer in time, an exception, a failure exit
\* (whatever it printed), output that is no JSON, no stream entry, or a first
\* video stream that is hevc, h264 or unnamed
ProbeResult(how, rc, parsed, streams) ==
    [how |-> how, returncode |-> rc, parsed |-> parsed, streams |-> streams]

ProbeResults ==
    { ProbeResult("timeout", 0, FALSE, <<>>),
      ProbeResult("error", 0, FALSE, <<>>),
      ProbeResult("exit", 1, TRUE, <<Hevc>>),
      ProbeResult("exit", 0, FALSE, <<>>),
      ProbeResult("exit", 0, TRUE, <<>>),
      ProbeResult("exit", 0, TRUE, <<Hevc>>),
      ProbeResult("exit", 0, TRUE, <<H264>>),
      ProbeResult("exit", 0, TRUE, <<NoName>>) }

ConnectBounded(kind, url) ==
    /\ Len(conns) < MaxConns
    /\ Connect(kind, url)

ReadBounded(got) ==
    /\ got => relay.bytes_sent < MaxRelayChunks
    /\ ReadChunk(got)

ProxyReadBounded(got) ==
    /\ got => relay.bytes_sent < MaxRelayChunks
    /\ ProxyRead(got)

Accept(r) == StreamAccept(r) \/ ServeOther(r)

NextRelay ==
    \/ \E url \in StreamUrls : ConnectBounded("stream", url)
    \/ ConnectBounded("state", CodeB)
    \/ \E r \in 1..Len(conns) : ClientClose(r)
    \/ \E r \in 1..Len(conns) : StreamAccept(r)
    \/ \E r \in 1..Len(conns) : ServeOther(r)
    \/ \E ffmpeg, ffprobe \in BOOLEAN : ToolCheck(ffmpeg, ffprobe)
    \/ \E result \in ProbeResults : Probe(result)
    \/ Spawn
    \/ SpawnFails
    \/ \E outcome \in {"ok"} \cup WriteErrors : SendHeaders(outcome)
    \/ \E got \in BOOLEAN : ReadBounded(got)
    \/ \E outcome \in {"ok"} \cup WriteErrors : WriteChunk(outcome)
    \/ \E timely \in BOOLEAN : Cleanup(timely)
    \/ \E upstream \in BOOLEAN : ProxyStart(upstream)
    \/ \E got \in BOOLEAN : ProxyReadBounded(got)
    \/ ProxyReadFails
    \/ \E outcome \in {"ok"} \cup WriteErrors : ProxyWrite(outcome)

SpecRelay == Init /\ [][NextRelay]_vars

RequestOver(r) == conns[r].state \in {"returned", "raised"}

\* C1: once a /stream request has ended, on whatever path, every ffmpeg process
\* it spawned has been sent terminate or kill.
C1_SpawnedIsSignalled ==
    \A p \in 1..Len(proc) :
        RequestOver(proc[p].owner) => (proc[p].terminate \/ proc[p].kill)

\* C2: when the write of a chunk to the client has failed, the relay does not
\* read from the subprocess again, and when the request is over the handler has
\* returned without raising and the subprocess has been terminated.
C2_ChunkWriteFailureIsHandled ==
    \A r \in 1..Len(conns) :
        (/\ conns[r].write_failed = "chunk"
         /\ \E p \in 1..Len(proc) : proc[p].owner = r) =>
            /\ cur = r => relay.pc \notin {"read", "write"}
            /\ RequestOver(r) =>
                  /\ conns[r].state = "returned"
                  /\ \A p \in 1..Len(proc) :
                        proc[p].owner = r =>
                            /\ proc[p].state = "exited"
                            /\ proc[p].terminate \/ proc[p].kill

\* C5: while a /stream relay is in progress, every other connection that is
\* waiting can be accepted.
C5_AcceptedDuringRelay ==
    \A r \in 1..Len(conns) :
        (cur # 0 /\ relay.pc \in {"read", "write"} /\ conns[r].state = "pending")
            => ENABLED Accept(r)

\* C15: a client is sent at most one status line and header block per request.
C15_OneReplyPerRequest ==
    \A r \in 1..Len(conns) : Len(conns[r].replies) <= 1

\* C16: when the ffmpeg process of a request has exited by itself with a
\* non-zero code without having produced any output, and the client is there,
\* the request is answered with 502, once, and not with 200.
C16_FailedTranscodeIs502 ==
    \A p \in 1..Len(proc) :
        (/\ proc[p].state = "exited"
         /\ proc[p].returncode > 0
         /\ ~proc[p].produced
         /\ conns[proc[p].owner].open
         /\ RequestOver(proc[p].owner))
            => conns[proc[p].owner].replies = <<502>>

\* C25: no exception leaves a request handler: every request that is over has
\* ended with the handler returning, a failure inside it having been answered
\* with a 500.
C25_NoExceptionLeavesHandler ==
    \A r \in 1..Len(conns) : RequestOver(r) => conns[r].state = "returned"

\* C29: the ffmpeg process of a request is ended in the order terminate, wait,
\* kill: a process that was killed had been sent terminate first, and the
\* handler has waited for its exit before the request is over.
C29_GracefulThenForced ==
    \A p \in 1..Len(proc) :
        (proc[p].kill /\ RequestOver(proc[p].owner)) =>
            proc[p].terminate /\ proc[p].waited

(* The /stream requests alone, one after the other: which plan a request is
   served with *)
MaxStreams == 1

StreamConnect(url) ==
    /\ Len(conns) < MaxStreams
    /\ Connect("stream", url)

NextStream ==
    \/ \E url \in StreamUrls : StreamConnect(url)
    \/ \E r \in 1..Len(conns) : ClientClose(r)
    \/ \E r \in 1..Len(conns) : StreamAccept(r)
    \/ \E ffmpeg, ffprobe \in BOOLEAN : ToolCheck(ffmpeg, ffprobe)
    \/ \E result \in ProbeResults : Probe(result)
    \/ Spawn
    \/ SpawnFails
    \/ \E outcome \in {"ok"} \cup WriteErrors : SendHeaders(outcome)
    \/ \E got \in BOOLEAN : ReadBounded(got)
    \/ \E outcome \in {"ok"} \cup WriteErrors : WriteChunk(outcome)
    \/ \E timely \in BOOLEAN : Cleanup(timely)
    \/ \E upstream \in BOOLEAN : ProxyStart(upstream)
    \/ \E got \in BOOLEAN : ProxyReadBounded(got)
    \/ ProxyReadFails
    \/ \E outcome \in {"ok"} \cup WriteErrors : ProxyWrite(outcome)

SpecStream == Init /\ [][NextStream]_vars

\* the probe succeeded and its first video stream is hevc
ProbedHevc(result) ==
    /\ result.how = "exit" /\ result.returncode = 0 /\ result.parsed
    /\ Len(result.streams) >= 1
    /\ result.streams[1] = Hevc

====
